---- MODULE Spec2Model ----
(***************************************************************************)
(* Model of the Portwatcher listener API (listner-api/app/main.py): three  *)
(* HTTP routes in front of one append-only log file.                       *)
(*                                                                         *)
(* Handlers are coroutines on one event loop.  A handler runs without      *)
(* interruption from its entry to its first real suspension point (the     *)
(* await of the request body) and from its resumption to its response:     *)
(* write_log_line holds no suspension point of its own, since open, write  *)
(* and close are synchronous calls.  Each handler is therefore two         *)
(* actions, Arrive and Resume; healthz has no await and is one action.     *)
(*                                                                         *)
(* Text is modelled as sequences of character tokens.  A token stands for  *)
(* one character class or one indivisible chunk of characters.             *)
(***************************************************************************)
EXTENDS Integers, Sequences, FiniteSets, TLC

(***************************************************************************)
(* Bounds of the model.                                                    *)
(***************************************************************************)
\* Number of requests the clients send in one run.
MaxReq == 2

\* The clock reads 0..MaxClock.
MaxClock == 1

(***************************************************************************)
(* Character tokens of bodies, lines and the log file.                     *)
(*   c : the character class, k : the key of a JSON member chunk,          *)
(*   v : the value of a JSON member chunk, or the instant of an "iso"      *)
(*       chunk.                                                            *)
(***************************************************************************)
NoVal == [ty |-> "none", n |-> 0]

\* A JSON number n.
Num(n) == [ty |-> "num", n |-> n]

\* The JSON string holding isoformat(n) followed by "Z".
IsoZStr(n) == [ty |-> "isoZ", n |-> n]

\* One character of class c.
Ch(c) == [c |-> c, k |-> "", v |-> NoVal]

\* The text of datetime n in ISO-8601 format.
Iso(n) == [c |-> "iso", k |-> "", v |-> Num(n)]

\* The text "k":v of one member of a compact JSON object.
Mem(k, v) == [c |-> "mem", k |-> k, v |-> v]

SP == Ch("sp")
NL == Ch("nl")
ZED == Ch("Z")
\* An invalid UTF-8 byte, and the replacement character U+FFFD it decodes to.
BAD == Ch("bad")
REP == Ch("rep")

IsSpace(t) == t.c \in {"sp", "nl"}

(***************************************************************************)
(* Headers: the raw content-type header is a sequence of header tokens.    *)
(*   "aj" : application/json      "AJ" : Application/JSON                  *)
(*   "tp" : text/plain            "cs" : charset=utf-8                     *)
(*   ";"  : the parameter separator   "sp" : a blank                       *)
(***************************************************************************)
NoHeader == [present |-> FALSE, v |-> <<>>]
Header(v) == [present |-> TRUE, v |-> v]

\* request.headers.get("content-type", "")
HeaderGet(h) == IF h.present THEN h.v ELSE <<>>

RECURSIVE FirstIndex(_, _, _)
\* The least index >= i of s that holds x, or Len(s) + 1.
FirstIndex(s, x, i) ==
    IF i > Len(s) THEN Len(s) + 1
    ELSE IF s[i] = x THEN i
    ELSE FirstIndex(s, x, i + 1)

\* str.split(";")[0]
SplitFirst(s) == SubSeq(s, 1, FirstIndex(s, ";", 1) - 1)

RECURSIVE LStripHdr(_)
LStripHdr(s) ==
    IF s # <<>> /\ Head(s) = "sp" THEN LStripHdr(Tail(s)) ELSE s

RECURSIVE RStripHdr(_)
RStripHdr(s) ==
    IF s # <<>> /\ s[Len(s)] = "sp" THEN RStripHdr(SubSeq(s, 1, Len(s) - 1)) ELSE s

\* str.strip() on a header value
StripHdr(s) == RStripHdr(LStripHdr(s))

\* str.lower() on a header value
LowerHdr(s) == [i \in 1..Len(s) |-> IF s[i] = "AJ" THEN "aj" ELSE s[i]]

\* As ContentType, without the lowering of the letters.
ContentTypeNoLower(h) == StripHdr(SplitFirst(HeaderGet(h)))

\* request.headers.get("content-type", "").split(";")[0].strip().lower()
ContentType(h) == LowerHdr(StripHdr(SplitFirst(HeaderGet(h))))

ApplicationJson == <<"aj">>

(***************************************************************************)
(* Text bodies: decode with replacement, then strip.                       *)
(***************************************************************************)
\* bytes.decode("utf-8", errors="replace")
Decode(b) == [i \in 1..Len(b) |-> IF b[i] = BAD THEN REP ELSE b[i]]

RECURSIVE LStrip(_)
LStrip(s) == IF s # <<>> /\ IsSpace(Head(s)) THEN LStrip(Tail(s)) ELSE s

RECURSIVE RStrip(_)
RStrip(s) ==
    IF s # <<>> /\ IsSpace(s[Len(s)]) THEN RStrip(SubSeq(s, 1, Len(s) - 1)) ELSE s

\* str.strip()
Strip(s) == RStrip(LStrip(s))

\* text.decode("utf-8", errors="replace").strip()
Payload(b) == Strip(Decode(b))

(***************************************************************************)
(* JSON: request.json() and json.dumps.                                    *)
(* A parsed value is [kind, d]: kind "error" (json.loads raised), "array", *)
(* or "object" with d the dict as a sequence of items [k, v] in insertion  *)
(* order, keys unique.                                                     *)
(***************************************************************************)
ParseError == [kind |-> "error", d |-> <<>>]

Item(k, v) == [k |-> k, v |-> v]

HasKey(d, k) == \E i \in 1..Len(d) : d[i].k = k

\* d[k], for a key the dict holds
Lookup(d, k) == d[CHOOSE i \in 1..Len(d) : d[i].k = k].v

\* d[k] = v: an existing key keeps its place and takes the new value
DictSet(d, k, v) ==
    IF HasKey(d, k)
    THEN [i \in 1..Len(d) |-> IF d[i].k = k THEN Item(k, v) ELSE d[i]]
    ELSE Append(d, Item(k, v))

RECURSIVE DictUpdate(_, _)
\* d.update(items), items taken left to right
DictUpdate(d, items) ==
    IF items = <<>> THEN d
    ELSE DictUpdate(DictSet(d, Head(items).k, Head(items).v), Tail(items))

\* The members of an object's text: mem , mem , ... mem
MembersOk(inner) ==
    \/ inner = <<>>
    \/ /\ Len(inner) % 2 = 1
       /\ \A i \in 1..Len(inner) :
            IF i % 2 = 1 THEN inner[i].c = "mem" ELSE inner[i] = Ch(",")

\* The items of well-formed members, in order
MemberItems(inner) ==
    LET mems == SelectSeq(inner, LAMBDA t : t.c = "mem")
    IN  [i \in 1..Len(mems) |-> Item(mems[i].k, mems[i].v)]

\* json.loads(body): blanks between tokens are skipped; an invalid byte, an
\* empty text or anything that is no JSON value raises.
JsonLoads(b) ==
    LET t == SelectSeq(b, LAMBDA x : ~IsSpace(x))
        n == Len(t)
    IN  IF t = <<Ch("["), Ch("]")>> THEN [kind |-> "array", d |-> <<>>]
        ELSE IF /\ n >= 2
                /\ t[1] = Ch("{")
                /\ t[n] = Ch("}")
                /\ MembersOk(SubSeq(t, 2, n - 1))
        THEN [kind |-> "object", d |-> DictUpdate(<<>>, MemberItems(SubSeq(t, 2, n - 1)))]
        ELSE ParseError

\* The value a timestamp string takes inside a JSON text.
TsValue(ts) == IsoZStr(ts[1].v.n)

\* As Merged, with the items the other way round: {**body, "ts": ts}.
MergedTsLast(ts, d) == DictSet(d, "ts", TsValue(ts))

\* {"ts": ts, **body}
Merged(ts, d) == DictUpdate(<<Item("ts", TsValue(ts))>>, d)

RECURSIVE JoinMembers(_)
JoinMembers(d) ==
    IF d = <<>> THEN <<>>
    ELSE IF Len(d) = 1 THEN <<Mem(d[1].k, d[1].v)>>
    ELSE <<Mem(d[1].k, d[1].v), Ch(",")>> \o JoinMembers(Tail(d))

\* json.dumps(d, separators=(",", ":"))
JsonDumps(d) == <<Ch("{")>> \o JoinMembers(d) \o <<Ch("}")>>

\* f"{ts} {payload}"
TextLine(ts, payload) == ts \o <<SP>> \o payload

(***************************************************************************)
(* Inputs the clients send.                                                *)
(***************************************************************************)
Headers ==
    { NoHeader,
      Header(<<"aj">>),
      Header(<<"sp", "AJ", "sp", ";", "sp", "cs">>),
      Header(<<"tp">>) }

ObjA == <<Ch("{"), Mem("a", Num(1)), Ch("}")>>
ObjB == <<SP, Ch("{"), Mem("b", Num(2)), Ch("}"), NL>>
ObjTs == <<Ch("{"), Mem("ts", Num(9)), Ch(","), Mem("a", Num(1)), Ch("}")>>
Malformed == <<Ch("{"), Mem("a", Num(1))>>
Array == <<Ch("["), Ch("]")>>
Empty == <<>>
Blank == <<SP, NL>>
Hello == <<SP, Ch("h"), SP>>
TwoLines == <<Ch("h"), NL, BAD>>

Bodies == {ObjA, ObjB, ObjTs, Malformed, Array, Empty, Blank, Hello, TwoLines}

\* What clients send under a content type that names JSON, and under any
\* other: the text routes take a body as it is, so one JSON text stands for
\* all of them there.
JsonBodies == {ObjA, ObjB, ObjTs, Malformed, Array, Empty, TwoLines}
TextBodies == {ObjA, Empty, Blank, Hello, TwoLines}

NamesJson(h) == \E i \in 1..Len(h.v) : h.v[i] \in {"aj", "AJ"}

ClientBodies(h) == IF NamesJson(h) THEN JsonBodies ELSE TextBodies

(***************************************************************************)
(* State.                                                                  *)
(***************************************************************************)
VARIABLES
    serving,    \* the module is imported and the app accepts requests
    dirExists,  \* the parent directory of LOG_FILE exists
    writable,   \* open(LOG_FILE, "a") succeeds
    clock,      \* what datetime.utcnow() reads
    file,       \* the content of LOG_FILE, as one sequence of characters
    stderr,     \* number of diagnostics printed to sys.stderr
    req,        \* the requests: each handler's position and locals
    resp,       \* the response returned last, with the request it answers
    order       \* history: the requests whose append succeeded, in file order

vars == <<serving, dirExists, writable, clock, file, stderr, req, resp, order>>

ReqIds == 1..MaxReq

NoTs == <<>>
NoLine == <<>>

\* A request record.
\*   pc           : "idle" (not sent yet), "await" (the handler awaits the
\*                  body), "done" (the response is returned)
\*   route, hdr   : the route and the raw content-type header of the request
\*   content_type : the handler's local of that name
\*   ts           : the handler's local of that name, NoTs while unassigned
\*   arrived      : history, what the clock read when the handler was entered
\*   line, wrote  : history, the line handed to write_log_line and what
\*                  became of it: "none" (no call), "ok", "failed"
IdleReq ==
    [pc |-> "idle", route |-> "", hdr |-> NoHeader, content_type |-> <<>>,
     ts |-> NoTs, arrived |-> 0, line |-> NoLine, wrote |-> "none"]

NoResp == [id |-> 0, status |-> 0, content |-> ""]

StatusOk == "{\"status\":\"ok\"}"

\* datetime.utcnow().isoformat() + "Z"
UtcNowIsoZ == <<Iso(clock), ZED>>

Init ==
    /\ serving = FALSE
    /\ dirExists = FALSE
    /\ writable = FALSE
    /\ clock = 0
    /\ file = <<>>
    /\ stderr = 0
    /\ req = [i \in ReqIds |-> IdleReq]
    /\ resp = NoResp
    /\ order = <<>>

(***************************************************************************)
(* Startup and environment.                                                *)
(***************************************************************************)
\* As EnsureLogDir, without the try: a failing mkdir ends the import.
EnsureLogDirUnguarded ==
    /\ ~serving
    /\ \E ok \in BOOLEAN :
         /\ dirExists' = ok
         /\ writable' = ok
         /\ stderr' = IF ok THEN stderr ELSE stderr + 1
         /\ serving' = ok
    /\ UNCHANGED <<clock, file, req, resp, order>>

\* ensure_log_dir(LOG_FILE) at import: mkdir succeeds or raises; a failure is
\* printed and startup goes on.  Without the directory the file cannot be
\* opened.
EnsureLogDir ==
    /\ ~serving
    /\ \E ok \in BOOLEAN :
         /\ dirExists' = ok
         /\ writable' = ok
         /\ stderr' = IF ok THEN stderr ELSE stderr + 1
    /\ serving' = TRUE
    /\ UNCHANGED <<clock, file, req, resp, order>>

\* Some request of the run is still to arrive or to be answered.  The run is
\* followed up to its last response: nothing reads the clock or the file
\* after it.
Unfinished == \E i \in 1..MaxReq : req[i].pc # "done"

\* The operator or the operating system changes whether LOG_FILE can be opened
\* for appending (permissions, a missing or restored directory).
EnvChange ==
    /\ serving
    /\ Unfinished
    /\ writable' = ~writable
    /\ dirExists' = (dirExists \/ ~writable)
    /\ UNCHANGED <<serving, clock, file, stderr, req, resp, order>>

\* Time passes.
Tick ==
    /\ clock < MaxClock
    /\ Unfinished
    /\ clock' = clock + 1
    /\ UNCHANGED <<serving, dirExists, writable, file, stderr, req, resp, order>>

(***************************************************************************)
(* The append writer.                                                      *)
(***************************************************************************)
\* As Appended, without the terminator.
AppendedNoNewline(f, line) == f \o line

\* As Appended, with the file opened in mode "w".
Overwritten(f, line) == line \o <<NL>>

\* As Appended, with the write issued twice.
AppendedTwice(f, line) == f \o line \o <<NL>> \o line \o <<NL>>

\* open(LOG_FILE, "a") ... f.write(line + "\n")
Appended(f, line) == f \o line \o <<NL>>

\* write_log_line(line), called by request i: the open succeeds and the line is
\* appended, or it raises and the failure is printed and swallowed.
WriteLogLine(i, line) ==
    /\ file' = IF writable THEN Appended(file, line) ELSE file
    /\ stderr' = IF writable THEN stderr ELSE stderr + 1
    /\ order' = IF writable THEN Append(order, i) ELSE order

\* What write_log_line did with the line handed to it.
WriteOutcome == IF writable THEN "ok" ELSE "failed"

(***************************************************************************)
(* The handlers.                                                           *)
(***************************************************************************)
\* Requests are numbered in the order they arrive.
IsNext(i) == req[i].pc = "idle" /\ \A j \in 1..(i - 1) : req[j].pc # "idle"

\* A handler that returned: its locals are gone.  History keeps the outcome of
\* its append and, when the append succeeded, the line and its timestamp.
DoneReq(route, ts, line, wrote) ==
    [IdleReq EXCEPT !.pc = "done", !.route = route, !.wrote = wrote,
                    !.ts = IF wrote = "ok" THEN ts ELSE NoTs,
                    !.line = IF wrote = "ok" THEN line ELSE NoLine]

\* The response returned to the caller of request i.
Reply(i, status, content) ==
    resp' = [id |-> i, status |-> status, content |-> content]

\* As Healthz, reporting the state of the destination.
HealthzNeedsLog(i) ==
    /\ serving
    /\ IsNext(i)
    /\ req' = [req EXCEPT ![i] = DoneReq("healthz", NoTs, NoLine, "none")]
    /\ Reply(i, IF writable THEN 200 ELSE 503, StatusOk)
    /\ UNCHANGED <<serving, dirExists, writable, clock, file, stderr, order>>

\* GET /healthz
Healthz(i) ==
    /\ serving
    /\ IsNext(i)
    /\ req' = [req EXCEPT ![i] = DoneReq("healthz", NoTs, NoLine, "none")]
    /\ Reply(i, 200, StatusOk)
    /\ UNCHANGED <<serving, dirExists, writable, clock, file, stderr, order>>

\* POST /ingest, from the handler's entry to its await of the body: the
\* content type is read and the timestamp is taken.
IngestArrive(i, h) ==
    /\ serving
    /\ IsNext(i)
    /\ req' = [req EXCEPT ![i] =
                 [IdleReq EXCEPT !.pc = "await", !.route = "ingest", !.hdr = h,
                                 !.content_type = ContentType(h),
                                 !.ts = UtcNowIsoZ, !.arrived = clock]]
    /\ UNCHANGED <<serving, dirExists, writable, clock, file, stderr, resp, order>>

\* POST /ingest with content type application/json, from the body's arrival on.
IngestJson(i, b) ==
    LET parsed == JsonLoads(b)
        line == JsonDumps(Merged(req[i].ts, parsed.d))
    IN  CASE parsed.kind = "error" ->
               /\ Reply(i, 400, "invalid json")
               /\ req' = [req EXCEPT ![i] = DoneReq("ingest", NoTs, NoLine, "none")]
               /\ UNCHANGED <<file, stderr, order>>
          [] parsed.kind = "array" ->
               \* {"ts": ts, **body} raises TypeError outside the try: the
               \* server answers 500
               /\ Reply(i, 500, "Internal Server Error")
               /\ req' = [req EXCEPT ![i] = DoneReq("ingest", NoTs, NoLine, "none")]
               /\ UNCHANGED <<file, stderr, order>>
          [] OTHER ->
               /\ WriteLogLine(i, line)
               /\ Reply(i, 202, "")
               /\ req' = [req EXCEPT ![i] =
                            DoneReq("ingest", req[i].ts, line, WriteOutcome)]

\* POST /ingest with any other content type, from the body's arrival on.
IngestText(i, b) ==
    LET payload == Payload(b)
        line == TextLine(req[i].ts, payload)
    IN  IF payload = <<>>
        THEN /\ Reply(i, 400, "empty body")
             /\ req' = [req EXCEPT ![i] = DoneReq("ingest", NoTs, NoLine, "none")]
             /\ UNCHANGED <<file, stderr, order>>
        ELSE /\ WriteLogLine(i, line)
             /\ Reply(i, 202, "")
             /\ req' = [req EXCEPT ![i] =
                          DoneReq("ingest", req[i].ts, line, WriteOutcome)]

\* POST /ingest, from the body's arrival to the response.
IngestResume(i, b) ==
    /\ req[i].pc = "await"
    /\ req[i].route = "ingest"
    /\ IF req[i].content_type = ApplicationJson
       THEN IngestJson(i, b)
       ELSE IngestText(i, b)
    /\ UNCHANGED <<serving, dirExists, writable, clock>>

\* POST /logline, from the handler's entry to its await of the body.
LogLineArrive(i) ==
    /\ serving
    /\ IsNext(i)
    /\ req' = [req EXCEPT ![i] =
                 [IdleReq EXCEPT !.pc = "await", !.route = "logline",
                                 !.arrived = clock]]
    /\ UNCHANGED <<serving, dirExists, writable, clock, file, stderr, resp, order>>

\* As LogLineTs, with the timestamp taken before the await, as /ingest does.
LogLineTsAtEntry(i) == <<Iso(req[i].arrived), ZED>>

\* The timestamp of a /logline line: taken after the body was read.
LogLineTs(i) == UtcNowIsoZ

\* POST /logline, from the body's arrival to the response.
LogLineResume(i, b) ==
    LET ts == LogLineTs(i)
        line == TextLine(ts, Payload(b))
    IN  /\ req[i].pc = "await"
        /\ req[i].route = "logline"
        /\ WriteLogLine(i, line)
        /\ Reply(i, 200, StatusOk)
        /\ req' = [req EXCEPT ![i] = DoneReq("logline", ts, line, WriteOutcome)]
        /\ UNCHANGED <<serving, dirExists, writable, clock>>

Next ==
    \/ EnsureLogDir
    \/ EnvChange
    \/ Tick
    \/ \E i \in ReqIds : Healthz(i)
    \/ \E i \in ReqIds : \E h \in Headers : IngestArrive(i, h)
    \/ \E i \in ReqIds : \E b \in ClientBodies(req[i].hdr) : IngestResume(i, b)
    \/ \E i \in ReqIds : LogLineArrive(i)
    \/ \E i \in ReqIds : \E b \in TextBodies : LogLineResume(i, b)

Spec == Init /\ [][Next]_vars

(***************************************************************************)
(* Vocabulary of the properties.                                           *)
(***************************************************************************)
\* Request i's handler returns its response in this step.
Completes(i) == req[i].pc # "done" /\ req'[i].pc = "done"

\* The response of this step accepts the request.
Accepted(i) == Completes(i) /\ resp'.id = i /\ resp'.status \in {200, 202}

\* Number of line terminators in a text.
CountNl(s) == Len(SelectSeq(s, LAMBDA t : t = NL))

\* s is an initial part of t.
IsPrefix(s, t) == Len(s) <= Len(t) /\ SubSeq(t, 1, Len(s)) = s

\* A text without its leading and trailing blanks, said without recursion.
Trimmed(s) ==
    LET solid == {i \in 1..Len(s) : ~IsSpace(s[i])}
        lo == CHOOSE i \in solid : \A j \in solid : i <= j
        hi == CHOOSE i \in solid : \A j \in solid : j <= i
    IN  IF solid = {} THEN <<>> ELSE SubSeq(s, lo, hi)

\* The header's media type is application/json: letter case and whatever
\* follows the first ";" do not count.
IsJsonMedia(h) ==
    /\ h.present
    /\ LET before == SubSeq(h.v, 1, FirstIndex(h.v, ";", 1) - 1)
       IN  SelectSeq(before, LAMBDA x : x # "sp") \in {<<"aj">>, <<"AJ">>}

\* The inputs by the case of the contract they fall under.
JsonHeaders == {h \in Headers : IsJsonMedia(h)}
OtherHeaders == Headers \ JsonHeaders
ObjectBodies == {b \in Bodies : JsonLoads(b).kind = "object"}
UnparsableBodies == {b \in Bodies : JsonLoads(b) = ParseError}
NonObjectBodies == Bodies \ (ObjectBodies \cup UnparsableBodies)
BlankBodies == {b \in Bodies : Trimmed(Decode(b)) = <<>>}

RECURSIVE SplitLines(_)
\* The lines of a text in which every line is terminated.
SplitLines(s) ==
    IF s = <<>> THEN <<>>
    ELSE LET n == FirstIndex(s, NL, 1)
         IN  <<SubSeq(s, 1, n - 1)>> \o SplitLines(SubSeq(s, n + 1, Len(s)))

RECURSIVE Chunks(_)
\* The texts the requests of a history appended, one after the other.
Chunks(ids) ==
    IF ids = <<>> THEN <<>>
    ELSE req[Head(ids)].line \o <<NL>> \o Chunks(Tail(ids))

\* The instant of the server timestamp of request i's line.
TsOf(i) == req[i].ts[1].v.n

StillHandles ==
    \A i \in ReqIds :
        /\ req[i].pc = "await" =>
              ENABLED (IngestResume(i, Hello) \/ LogLineResume(i, Hello))
        /\ IsNext(i) =>
              /\ ENABLED Healthz(i)
              /\ ENABLED LogLineArrive(i)
              /\ ENABLED IngestArrive(i, NoHeader)

\* The normal success response of request i's route.
Success(i) ==
    [id |-> i,
     status |-> IF req[i].route = "ingest" THEN 202 ELSE 200,
     content |-> IF req[i].route = "ingest" THEN "" ELSE StatusOk]

C2_FailuresSwallowed ==
    /\ [][(~serving /\ stderr' > stderr) => serving']_vars
    /\ [][serving => serving']_vars
    /\ [](serving => StillHandles)
    /\ [][\A i \in ReqIds :
            (Completes(i) /\ req'[i].wrote # "none") =>
               /\ resp' = Success(i)
               /\ req'[i].wrote = IF writable THEN "ok" ELSE "failed"
               /\ IF writable
                  THEN Len(file') > Len(file) /\ IsPrefix(file, file')
                  ELSE file' = file /\ stderr' = stderr + 1]_vars

\* The directory could not be created, a first append failed and was accepted,
\* the destination became writable and a later append succeeded.
C2_Witness ==
    /\ serving
    /\ stderr = 2
    /\ \E i, j \in ReqIds :
          /\ i < j
          /\ req[i].pc = "done" /\ req[i].wrote = "failed"
          /\ req[j].pc = "done" /\ req[j].wrote = "ok"
          /\ file = req[j].line \o <<NL>>

(***************************************************************************)
(* C3.  Client input errors on /ingest are rejected with no side effects:  *)
(* under a JSON content type a body that does not parse as JSON (an empty  *)
(* body included) gets 400 "invalid json"; under any other or no content   *)
(* type a body that is empty after decoding and trimming gets 400 "empty   *)
(* body"; in both cases the destination is as it was before the request.   *)
(***************************************************************************)
C3_ClientErrors ==
    [][\A i \in ReqIds : Completes(i) => \A b \in Bodies :
         /\ (req[i].hdr \in JsonHeaders /\ b \in UnparsableBodies /\ IngestResume(i, b))
               => /\ resp' = [id |-> i, status |-> 400, content |-> "invalid json"]
                  /\ UNCHANGED <<file, order>>
         /\ (req[i].hdr \in OtherHeaders /\ b \in BlankBodies /\ IngestResume(i, b))
               => /\ resp' = [id |-> i, status |-> 400, content |-> "empty body"]
                  /\ UNCHANGED <<file, order>>]_vars

\* A request was rejected as empty after an earlier one was rejected as
\* invalid JSON: nothing was written.
C3_Witness ==
    /\ resp = [id |-> 2, status |-> 400, content |-> "empty body"]
    /\ req[1].pc = "done" /\ req[1].route = "ingest" /\ req[1].wrote = "none"
    /\ req[2].pc = "done" /\ req[2].route = "ingest" /\ req[2].wrote = "none"
    /\ writable
    /\ file = <<>>

(***************************************************************************)
(* C4.  For every JSON object O posted to /ingest under a content type     *)
(* whose media type is application/json, objects with a top-level "ts"     *)
(* key included, the response is 202 and the appended line deserializes to *)
(* an object that holds every key of O with O's value and a "ts" key whose *)
(* value is the server's timestamp ending in Z.  Stated for the requests   *)
(* whose append succeeds.                                                  *)
(***************************************************************************)
\* Object d holds every item of object o.
HoldsAll(d, o) ==
    \A n \in 1..Len(o) : HasKey(d, o[n].k) /\ Lookup(d, o[n].k) = o[n].v

\* Request i is a post to /ingest under a JSON media type, answered in this
\* step.
AnswersJsonPost(i) ==
    /\ Completes(i)
    /\ req[i].route = "ingest"
    /\ req[i].hdr \in JsonHeaders

C4_Original ==
    [][\A i \in ReqIds : AnswersJsonPost(i) => \A b \in ObjectBodies :
         (IngestResume(i, b) /\ writable) =>
            /\ resp'.id = i /\ resp'.status = 202
            /\ file' = file \o req'[i].line \o <<NL>>
            /\ LET got == JsonLoads(req'[i].line)
               IN  /\ got.kind = "object"
                   /\ HoldsAll(got.d, JsonLoads(b).d)
                   /\ HasKey(got.d, "ts")
                   /\ Lookup(got.d, "ts") = IsoZStr(req[i].arrived)]_vars

\* C4 as amended: the response is 202 and, when the append succeeds, the
\* appended line deserializes to an object that holds every key of O with O's
\* value and a "ts" key; the value of "ts" is the server's timestamp ending in
\* Z when O has no "ts" key, and O's own value when it has one.
C4_Amended ==
    [][\A i \in ReqIds : AnswersJsonPost(i) => \A b \in ObjectBodies :
         IngestResume(i, b) =>
            /\ resp'.id = i /\ resp'.status = 202
            /\ writable =>
                 /\ file' = file \o req'[i].line \o <<NL>>
                 /\ LET got == JsonLoads(req'[i].line)
                        o == JsonLoads(b).d
                    IN  /\ got.kind = "object"
                        /\ HoldsAll(got.d, o)
                        /\ HasKey(got.d, "ts")
                        /\ Lookup(got.d, "ts") =
                              IF HasKey(o, "ts") THEN Lookup(o, "ts")
                              ELSE IsoZStr(req[i].arrived)]_vars

\* An accepted object with its own "ts" key is in the file, after an accepted
\* object without one, sent under a header in capitals with a parameter.
C4_Witness ==
    /\ resp = [id |-> 2, status |-> 202, content |-> ""]
    /\ req[1].wrote = "ok" /\ req[2].wrote = "ok"
    /\ Len(SplitLines(file)) = 2
    /\ LET first == JsonLoads(SplitLines(file)[1])
           second == JsonLoads(SplitLines(file)[2])
       IN  /\ first.kind = "object"
           /\ Lookup(first.d, "ts") = IsoZStr(0)
           /\ HasKey(first.d, "b")
           /\ second.kind = "object"
           /\ Lookup(second.d, "ts") = Num(9)
           /\ HasKey(second.d, "a")

(***************************************************************************)
(* C5.  Under a JSON content type the body of /ingest must be a JSON       *)
(* object: well-formed JSON that is no object (an array, a string, a       *)
(* number, a boolean, null) is answered like a parse failure, with 400 and *)
(* a short diagnostic body, and no line is written.                        *)
(***************************************************************************)
C5_Claim ==
    [][\A i \in ReqIds : AnswersJsonPost(i) => \A b \in NonObjectBodies :
         IngestResume(i, b)
            => /\ resp'.id = i
               /\ resp'.status = 400
               /\ resp'.content # ""
               /\ file' = file]_vars

(***************************************************************************)
(* C6.  /logline never rejects: for every body, empty or blank ones        *)
(* included, it answers 200 {"status":"ok"} and appends exactly one line:  *)
(* the server timestamp, one space, and the decoded body without its       *)
(* leading and trailing blanks; /ingest answers the same empty body with   *)
(* 400 and writes nothing.  Stated for a writable destination.             *)
(***************************************************************************)
C6_Claim ==
    [][\A i \in ReqIds : Completes(i) => \A b \in Bodies :
         /\ (LogLineResume(i, b) /\ writable) =>
               /\ resp' = [id |-> i, status |-> 200, content |-> StatusOk]
               /\ file' = file \o <<Iso(clock), ZED, SP>> \o Trimmed(Decode(b)) \o <<NL>>
               /\ Len(SplitLines(file')) = Len(SplitLines(file)) + 1
         /\ (b \in BlankBodies /\ IngestResume(i, b)) =>
               /\ resp'.id = i /\ resp'.status = 400
               /\ file' = file]_vars

(***************************************************************************)
(* C7.  GET /healthz always returns 200 with body {"status":"ok"}, whether *)
(* or not the directory was created and whether or not the file is         *)
(* writable, and it has no side effects: the destination is unchanged by   *)
(* health probes, however they interleave with ingestion requests.         *)
(***************************************************************************)
C7_Healthz ==
    /\ [](\A i \in ReqIds : (serving /\ IsNext(i)) => ENABLED Healthz(i))
    /\ [][\A i \in ReqIds :
            (Completes(i) /\ req'[i].route = "healthz") =>
               /\ resp' = [id |-> i, status |-> 200, content |-> StatusOk]
               /\ UNCHANGED <<file, stderr, order, writable, dirExists, clock>>
               /\ \A j \in ReqIds \ {i} : req'[j] = req[j]]_vars

\* A probe answered between the arrival and the completion of an ingestion,
\* on a destination that holds a line and cannot be written.
C7_Witness ==
    /\ req[1].pc = "await"
    /\ req[2].pc = "done" /\ req[2].route = "healthz"
    /\ resp = [id |-> 2, status |-> 200, content |-> StatusOk]
    /\ ~writable

(***************************************************************************)
(* C8.  When N requests carrying N distinct JSON objects are posted to     *)
(* /ingest concurrently against a writable destination, then for every     *)
(* interleaving of the handlers' steps the destination ends with exactly N *)
(* new lines, each the complete serialization of one of the N objects, in  *)
(* some order: none lost, duplicated, truncated or merged with another.    *)
(***************************************************************************)
\* Every request is a JSON object posted to /ingest, answered, its append
\* not refused, and no two of them carry the same object.
AllPostedObjects ==
    /\ \A i \in ReqIds :
          /\ req[i].pc = "done"
          /\ req[i].route = "ingest"
          /\ req[i].wrote = "ok"
          /\ JsonLoads(req[i].line).kind = "object"
    /\ \A i, j \in ReqIds : i # j => req[i].line # req[j].line

C8_NoLostOrMergedLines ==
    AllPostedObjects =>
       LET lines == SplitLines(file)
       IN  /\ Len(lines) = MaxReq
           /\ \A i \in ReqIds :
                 Cardinality({n \in 1..Len(lines) : lines[n] = req[i].line}) = 1
           /\ \A n \in 1..Len(lines) : JsonLoads(lines[n]).kind = "object"

\* All requests posted objects while the others were being read, and the one
\* that arrived first was written last.
C8_Witness ==
    /\ AllPostedObjects
    /\ order[Len(order)] = 1
    /\ SplitLines(file)[MaxReq] = req[1].line
    /\ \A i \in ReqIds : TsOf(i) = 0

(***************************************************************************)
(* C9.  The destination is append-only under every interleaving of         *)
(* requests to the three routes: its content at any moment is a prefix of  *)
(* its content at every later moment, each request appends at most once,   *)
(* and the content is exactly the concatenation of the lines of the        *)
(* requests whose append succeeded, each once; requests answered with 400  *)
(* and health probes contribute nothing.                                   *)
(***************************************************************************)
C9_AppendOnly ==
    /\ [][IsPrefix(file, file')]_vars
    /\ [](/\ file = Chunks(order)
          /\ \A m, n \in 1..Len(order) : m # n => order[m] # order[n]
          /\ \A i \in ReqIds :
                (\E n \in 1..Len(order) : order[n] = i)
                   <=> (req[i].wrote = "ok" /\ req[i].route \in {"ingest", "logline"}))
    /\ [][\A i \in ReqIds :
            (Completes(i) /\ (resp'.status = 400 \/ req'[i].route = "healthz"))
               => file' = file]_vars
    /\ [][\A i \in ReqIds :
            (req[i].pc = "done" \/ ~Completes(i)) => req'[i].line = req[i].line]_vars

\* Two lines in the file, of two routes, the second from the request that
\* arrived first.
C9_Witness ==
    /\ Len(order) = 2
    /\ file = req[order[1]].line \o <<NL>> \o req[order[2]].line \o <<NL>>
    /\ order[2] < order[1]
    /\ req[order[1]].route # req[order[2]].route

(***************************************************************************)
(* C10.  With a non-decreasing clock and the requests handled on one event *)
(* loop, the server timestamps of the lines are non-decreasing in file     *)
(* order: of two appended lines of /ingest or /logline, the earlier in the *)
(* file never carries a later timestamp than the one after it.             *)
(***************************************************************************)
C10_Original ==
    \A m, n \in 1..Len(order) :
        m < n => TsOf(order[m]) <= TsOf(order[n])

\* C10 as amended: a line appended by /logline never carries an earlier
\* server timestamp than a line before it in the file.  A line appended by
\* /ingest may: its timestamp is taken before the body is read.
C10_Amended ==
    \A m, n \in 1..Len(order) :
        (m < n /\ req[order[n]].route = "logline")
           => TsOf(order[m]) <= TsOf(order[n])

\* A /logline request arrived first, was overtaken by another request's line
\* and appended its own line later, with the later timestamp.
C10_Witness ==
    /\ Len(order) = 2
    /\ order = <<2, 1>>
    /\ req[1].route = "logline"
    /\ TsOf(2) < TsOf(1)
    /\ Len(SplitLines(file)) = 2

====
